---- MODULE Spec2Model ----
(***************************************************************************)
(* A model of the photo-room application: the directory view (Index), the  *)
(* Room view (Room.tsx) and the remote document store they call.           *)
(*                                                                         *)
(* Every `await` of a handler is a point where other handlers and other    *)
(* clients may run, so an async handler is a sequence of steps; a          *)
(* synchronous handler is one step.  A store call either takes effect and  *)
(* resolves (ok = TRUE) or rejects without effect (ok = FALSE).            *)
(***************************************************************************)
EXTENDS Integers, Sequences, FiniteSets, TLC

VARIABLES
    \* ---- remote store -------------------------------------------------
    rooms,          \* collection "rooms": sequence of room documents, id = index
    photoDocs,      \* collection rooms/<id>/photos: sequence of photo documents
    likeDocs,       \* rooms/<id>/photos/<p>/likes/<userId>: [photo id -> doc]
    clock,          \* the time of the latest `new Date()` written to the store
    \* ---- Index component (one per client) -----------------------------
    view,           \* which route the client shows: "index" or "room"
    roomName,       \* useState roomName
    password,       \* useState password
    indexLoading,   \* useState loading (Index)
    createCall,     \* the createRoom call awaiting addDoc, with its closure
    roomsList,      \* useState rooms
    loadingRooms,   \* useState loadingRooms
    \* ---- Room component (one per client) ------------------------------
    roomId,         \* useParams().roomId
    locState,       \* useLocation().state?.passwordAttempt
    loading,        \* useState loading (Room)
    roomData,       \* useState roomData
    photos,         \* useState photos
    uploading,      \* useState uploading
    selectedPhoto,  \* useState selectedPhoto
    loads,          \* loadPhotos calls in flight
    likeOps,        \* handleLikeDislike calls in flight
    batches,        \* handleFileUpload / handleDrop calls in flight
    toast           \* the last toast shown to the client

storeVars == <<rooms, photoDocs, likeDocs, clock>>
indexVars == <<roomName, password, indexLoading, createCall, roomsList, loadingRooms>>
roomVars  == <<roomId, locState, loading, roomData, photos, uploading, selectedPhoto>>
opVars    == <<loads, likeOps, batches>>
vars == <<rooms, photoDocs, likeDocs, clock, view, roomName, password,
          indexLoading, createCall, roomsList, loadingRooms, roomId, locState,
          loading, roomData, photos, uploading, selectedPhoto, loads, likeOps,
          batches, toast>>

(***************************************************************************)
(* Bounds of the model.                                                    *)
(***************************************************************************)
MaxRooms == 2
MaxLoads == 1
MaxLikeOps == 1
MaxCount == 1
MaxPhotos == 2
MaxBatchLen == 2
MaxBatches == 2

\* 750 * 1024, the size limit of Room.tsx lines 186 and 260
MaxFileBytes == 768000
InitPhotos == 2
RacePhotos == 1

Clients == {"c1", "c2"}

\* The clients that act in the directory specification.
DirClients == {"c1"}

\* The client whose reactions the sequential specification follows.
SeqClients == {"c1"}

\* The client that uploads in the upload specification.
UploadClients == {"c1"}

(***************************************************************************)
(* JavaScript values.  A string is a sequence of characters; undefined and *)
(* null are distinct values, and === compares tag and content.             *)
(***************************************************************************)
JsUndefined == [tag |-> "undefined", s |-> <<>>]
JsNull      == [tag |-> "null", s |-> <<>>]
JsStr(s)    == [tag |-> "string", s |-> s]

\* !v for a value that is a string, null or undefined
Falsy(v) == v.tag # "string" \/ v.s = <<>>

\* a === b
StrictEq(a, b) == a = b

RECURSIVE TrimStart(_)
TrimStart(s) ==
    IF s # <<>> /\ Head(s) = " " THEN TrimStart(Tail(s)) ELSE s

RECURSIVE TrimEnd(_)
TrimEnd(s) ==
    IF s # <<>> /\ s[Len(s)] = " " THEN TrimEnd(SubSeq(s, 1, Len(s) - 1)) ELSE s

\* String.prototype.trim
Trim(s) == TrimEnd(TrimStart(s))

\* What the user can type into the room-name field.
NameInputs == { <<>>, <<" ">>, <<"a">>, <<" ", "a">> }

\* What the user can type into the password field or the password prompt.
SecretInputs == { <<>>, <<" ">>, <<"a">>, <<"A">>, <<"a", " ">> }

UnnamedRoom == <<"Unnamed Room">>

NoToast == "none"

(***************************************************************************)
(* The store's ordered query: the documents, highest key first.  The order *)
(* among equal keys is the store's choice.                                 *)
(***************************************************************************)
Perms(S) ==
    { f \in [1..Cardinality(S) -> S] : \A i, j \in DOMAIN f : i # j => f[i] # f[j] }

OrderByDesc(ids, key) ==
    { f \in Perms(ids) : \A i, j \in DOMAIN f : i < j => key[f[i]] >= key[f[j]] }

\* new Date(): the same millisecond as the latest stored date, or a later one.
\* Only the order of the stored dates matters, so later is one tick.
Now == {clock, clock + 1}

Max(a, b) == IF a >= b THEN a ELSE b

IdleCall == [pc |-> "idle"]

NoRoom == [id |-> 0]
NoPhoto == [id |-> 0]

\* Room.tsx line 56: the one viewer identity every client uses
userId == "mock-user-123"

\* The photo documents of a room, by id
PhotoIdsOf(r) == { p \in DOMAIN photoDocs : photoDocs[p].room = r }

\* Removing element k of a sequence of calls in flight
RemoveAt(seq, k) == SubSeq(seq, 1, k - 1) \o SubSeq(seq, k + 1, Len(seq))

(***************************************************************************)
(* Navigation.  A route change unmounts one component and mounts the       *)
(* other, whose state starts at its useState initial values.               *)
(***************************************************************************)
\* Index mounts: useState initial values (part_000 lines 355-359)
IndexMounted(c) ==
    /\ roomName' = [roomName EXCEPT ![c] = <<>>]
    /\ password' = [password EXCEPT ![c] = <<>>]
    /\ indexLoading' = [indexLoading EXCEPT ![c] = FALSE]
    /\ createCall' = [createCall EXCEPT ![c] = IdleCall]
    /\ roomsList' = [roomsList EXCEPT ![c] = <<>>]
    /\ loadingRooms' = [loadingRooms EXCEPT ![c] = TRUE]

\* Room mounts for /room/<id> with navigation state `attempt`
\* (Room.tsx lines 44-53); its effect calls loadRoomData (lines 58-62).
\* Id 0 stands for no Room component being mounted.
RoomMounted(c, id, attempt) ==
    /\ roomId' = [roomId EXCEPT ![c] = id]
    /\ locState' = [locState EXCEPT ![c] = attempt]
    /\ loading' = [loading EXCEPT ![c] = (id # 0)]
    /\ roomData' = [roomData EXCEPT ![c] = NoRoom]
    /\ photos' = [photos EXCEPT ![c] = <<>>]
    /\ uploading' = [uploading EXCEPT ![c] = FALSE]
    /\ selectedPhoto' = [selectedPhoto EXCEPT ![c] = NoPhoto]

\* navigate(`/room/${id}`, { state }) from the Index component
EnterRoom(c, id, attempt) ==
    /\ view' = [view EXCEPT ![c] = "room"]
    /\ RoomMounted(c, id, attempt)
    /\ IndexMounted(c)
    /\ UNCHANGED opVars

\* navigate("/") from the Room component
LeaveRoom(c) ==
    /\ view' = [view EXCEPT ![c] = "index"]
    /\ RoomMounted(c, 0, JsUndefined)
    /\ IndexMounted(c)
    /\ loads' = [loads EXCEPT ![c] = <<>>]
    /\ UNCHANGED <<likeOps, batches>>

(***************************************************************************)
(* The Index component (part_000 lines 354-600).                           *)
(***************************************************************************)
\* onChange of the room-name input (line 493), disabled while loading
SetRoomName(c, s) ==
    /\ view[c] = "index" /\ ~indexLoading[c]
    /\ roomName' = [roomName EXCEPT ![c] = s]
    /\ UNCHANGED <<storeVars, view, password, indexLoading, createCall, roomsList,
                   loadingRooms, roomVars, opVars, toast>>

\* onChange of the password input (line 517), disabled while loading
SetPassword(c, s) ==
    /\ view[c] = "index" /\ ~indexLoading[c]
    /\ password' = [password EXCEPT ![c] = s]
    /\ UNCHANGED <<storeVars, view, roomName, indexLoading, createCall, roomsList,
                   loadingRooms, roomVars, opVars, toast>>

\* One entry of the directory list (lines 374-380)
RoomEntry(id) ==
    [id |-> id, name |-> rooms[id].name, isPrivate |-> rooms[id].isPrivate,
     photoCount |-> rooms[id].photoCount]

RoomCreatedAt == [id \in DOMAIN rooms |-> rooms[id].createdAt]

\* loadRooms (lines 366-394), called when Index mounts
LoadRooms(c, ok) ==
    /\ view[c] = "index" /\ loadingRooms[c]
    /\ IF ok
       THEN /\ \E order \in OrderByDesc(DOMAIN rooms, RoomCreatedAt) :
                 roomsList' = [roomsList EXCEPT ![c] =
                                 [i \in DOMAIN order |-> RoomEntry(order[i])]]
            /\ UNCHANGED toast
       ELSE /\ toast' = [toast EXCEPT ![c] = "Failed to load rooms"]
            /\ UNCHANGED roomsList
    /\ loadingRooms' = [loadingRooms EXCEPT ![c] = FALSE]
    /\ UNCHANGED <<storeVars, view, roomName, password, indexLoading, createCall,
                   roomVars, opVars>>

\* NewRoomDoc storing the secret trimmed
NewRoomDocTrimmedSecret(name, isPrivate, pw, t) ==
    [name |-> Trim(name), isPrivate |-> isPrivate,
     password |-> IF isPrivate THEN JsStr(Trim(pw)) ELSE JsNull,
     createdAt |-> t, photoCount |-> 0]

\* NewRoomDoc storing the password field whatever the room's kind
NewRoomDocKeepsSecret(name, isPrivate, pw, t) ==
    [name |-> Trim(name), isPrivate |-> isPrivate, password |-> JsStr(pw),
     createdAt |-> t, photoCount |-> 0]

\* The document createRoom hands to addDoc (lines 417-423)
NewRoomDoc(name, isPrivate, pw, t) ==
    [name |-> Trim(name), isPrivate |-> isPrivate,
     password |-> IF isPrivate THEN JsStr(pw) ELSE JsNull,
     createdAt |-> t, photoCount |-> 0]

\* createRoom without the check of the room name (lines 397-404 left out)
CreateRoomNoNameCheck(c, isPrivate) ==
    /\ view[c] = "index" /\ ~indexLoading[c]
    /\ IF isPrivate /\ Trim(password[c]) = <<>>
       THEN /\ toast' = [toast EXCEPT ![c] = "Please set a password for private room"]
            /\ UNCHANGED <<indexLoading, createCall>>
       ELSE /\ Len(rooms) < MaxRooms
            /\ \E t \in Now :
                 createCall' = [createCall EXCEPT ![c] =
                        [pc |-> "addDoc",
                         doc |-> NewRoomDoc(roomName[c], isPrivate, password[c], t)]]
            /\ indexLoading' = [indexLoading EXCEPT ![c] = TRUE]
            /\ UNCHANGED toast
    /\ UNCHANGED <<storeVars, view, roomName, password, roomsList,
                   loadingRooms, roomVars, opVars>>

\* createRoom up to its await (lines 396-417).  The handler's own checks are
\* modelled: it is taken to be callable whatever the fields hold, as from
\* the card click of Index.tsx line 117.
CreateRoom(c, isPrivate) ==
    /\ view[c] = "index" /\ ~indexLoading[c]
    /\ IF Trim(roomName[c]) = <<>>
       THEN /\ toast' = [toast EXCEPT ![c] = "Please enter a room name"]
            /\ UNCHANGED <<indexLoading, createCall>>
       ELSE IF isPrivate /\ Trim(password[c]) = <<>>
       THEN /\ toast' = [toast EXCEPT ![c] = "Please set a password for private room"]
            /\ UNCHANGED <<indexLoading, createCall>>
       ELSE /\ Len(rooms) < MaxRooms
            /\ \E t \in Now :
                 createCall' = [createCall EXCEPT ![c] =
                        [pc |-> "addDoc",
                         doc |-> NewRoomDoc(roomName[c], isPrivate, password[c], t)]]
            /\ indexLoading' = [indexLoading EXCEPT ![c] = TRUE]
            /\ UNCHANGED toast
    /\ UNCHANGED <<storeVars, view, roomName, password, roomsList,
                   loadingRooms, roomVars, opVars>>

\* createRoom from addDoc's result on (lines 417-441)
CreateRoomDone(c, ok) ==
    /\ view[c] = "index" /\ createCall[c].pc = "addDoc"
    /\ IF ok
       THEN /\ Len(rooms) < MaxRooms
            /\ rooms' = Append(rooms, createCall[c].doc)
            /\ clock' = Max(clock, createCall[c].doc.createdAt)
            /\ toast' = [toast EXCEPT ![c] = "Room created!"]
            /\ EnterRoom(c, Len(rooms) + 1, JsUndefined)
       ELSE /\ toast' = [toast EXCEPT ![c] = "Failed to create room"]
            /\ indexLoading' = [indexLoading EXCEPT ![c] = FALSE]
            /\ createCall' = [createCall EXCEPT ![c] = IdleCall]
            /\ UNCHANGED <<rooms, clock, view, roomName, password, roomsList,
                           loadingRooms, roomVars, opVars>>
    /\ UNCHANGED <<photoDocs, likeDocs>>

\* What prompt() returns: null on cancel, else the text typed
PromptResults == {JsNull} \cup { JsStr(s) : s \in SecretInputs }

\* joinRoom (lines 444-455) on entry k of the list
JoinRoom(c, k, entered) ==
    /\ view[c] = "index" /\ ~indexLoading[c]
    /\ k \in DOMAIN roomsList[c]
    /\ IF roomsList[c][k].isPrivate
       THEN IF Falsy(entered)
            THEN UNCHANGED <<view, indexVars, roomVars, opVars>>
            ELSE EnterRoom(c, roomsList[c][k].id, entered)
       ELSE /\ entered = JsNull
            /\ EnterRoom(c, roomsList[c][k].id, JsUndefined)
    /\ UNCHANGED <<storeVars, toast>>

\* The user opens a room's link (shareRoom, Room.tsx lines 374-381): the route
\* /room/<id> with no navigation state
OpenRoomUrl(c, id) ==
    /\ view[c] = "index" /\ ~indexLoading[c]
    /\ EnterRoom(c, id, JsUndefined)
    /\ UNCHANGED <<storeVars, toast>>

(***************************************************************************)
(* The Room component (Room.tsx): loading the room and its photos.         *)
(***************************************************************************)
\* The RoomData built from the room document (lines 78-85)
RoomOf(id) ==
    [id |-> id,
     name |-> IF rooms[id].name = <<>> THEN UnnamedRoom ELSE rooms[id].name,
     isPrivate |-> rooms[id].isPrivate,
     password |-> rooms[id].password,
     photoCount |-> rooms[id].photoCount]

\* An access check that lets every attempt pass
AccessGrantedAlways(room, attempt) == TRUE

\* AccessGranted with the attempt and the secret trimmed before comparing
AccessGrantedTrimmed(room, attempt) ==
    ~room.isPrivate
    \/ (attempt.tag = room.password.tag /\ Trim(attempt.s) = Trim(room.password.s))

\* The access check of loadRoomData (lines 87-98): a private room needs the
\* navigation state's passwordAttempt to be === the stored password
AccessGranted(room, attempt) ==
    ~room.isPrivate \/ StrictEq(attempt, room.password)

\* loadPhotos() is called: a new call in flight, at its getDocs (line 122)
StartLoadPhotos(c) == Append(loads[c], [pc |-> "getDocs"])

\* loadRoomData (lines 64-113)
LoadRoomData(c, ok) ==
    /\ view[c] = "room" /\ loading[c]
    /\ IF ~ok
       THEN /\ toast' = [toast EXCEPT ![c] = "Failed to load room data"]
            /\ LeaveRoom(c)
       ELSE IF roomId[c] \notin DOMAIN rooms
       THEN /\ toast' = [toast EXCEPT ![c] = "Room not found"]
            /\ LeaveRoom(c)
       ELSE IF ~AccessGranted(RoomOf(roomId[c]), locState[c])
       THEN /\ toast' = [toast EXCEPT ![c] = "Incorrect password"]
            /\ LeaveRoom(c)
       ELSE /\ roomData' = [roomData EXCEPT ![c] = RoomOf(roomId[c])]
            /\ loads' = [loads EXCEPT ![c] = StartLoadPhotos(c)]
            /\ loading' = [loading EXCEPT ![c] = FALSE]
            /\ UNCHANGED <<view, indexVars, roomId, locState, photos, uploading,
                           selectedPhoto, likeOps, batches, toast>>
    /\ UNCHANGED storeVars

\* The back button of the Room header (line 416), rendered once the room is
\* loaded
Back(c) ==
    /\ view[c] = "room" /\ ~loading[c] /\ roomData[c] # NoRoom
    /\ likeOps[c] = <<>> /\ batches[c] = <<>>
    /\ LeaveRoom(c)
    /\ UNCHANGED <<storeVars, toast>>

\* A check of line 130 that looks at the name only
ValidPhotoDocNameOnly(d) == d.name # ""

\* A photo document is listed only with its required fields (line 130)
ValidPhotoDoc(d) == d.base64 # "" /\ d.name # "" /\ d.uploadedAt # 0

PhotoUploadedAt == [p \in DOMAIN photoDocs |-> photoDocs[p].uploadedAt]

\* The viewer's reaction document on photo p, if any
LikeKey(p) == <<p, userId>>
LikeExists(p) == LikeKey(p) \in DOMAIN likeDocs

\* userAction as loadPhotos resolves it (lines 145-151)
UserActionOf(p, ok) ==
    IF ok /\ LikeExists(p) THEN likeDocs[LikeKey(p)].action ELSE "undefined"

\* The Photo pushed for document p as read in snapshot data d (lines 153-162)
PhotoOf(p, d, userAction) ==
    [id |-> p, base64 |-> d.base64, name |-> d.name, uploadedAt |-> d.uploadedAt,
     uploader |-> IF d.uploader = "" THEN "Anonymous" ELSE d.uploader,
     likeCount |-> d.likeCount, dislikeCount |-> d.dislikeCount,
     userAction |-> userAction]

RECURSIVE SelectSeq2(_, _)
\* The snapshot's documents that pass the check of line 130, in order
SelectSeq2(order, i) ==
    IF i > Len(order) THEN <<>>
    ELSE (IF ValidPhotoDoc(photoDocs[order[i]])
          THEN <<[id |-> order[i], data |-> photoDocs[order[i]]]>> ELSE <<>>)
         \o SelectSeq2(order, i + 1)

\* loadPhotos: the ordered query resolves (lines 118-133)
LoadPhotosGetDocs(c, k, ok) ==
    /\ view[c] = "room" /\ k \in DOMAIN loads[c] /\ loads[c][k].pc = "getDocs"
    /\ IF ok
       THEN \E order \in OrderByDesc(PhotoIdsOf(roomId[c]), PhotoUploadedAt) :
              LET docs == SelectSeq2(order, 1) IN
              IF docs = <<>>
              THEN /\ photos' = [photos EXCEPT ![c] = <<>>]
                   /\ loads' = [loads EXCEPT ![c] = RemoveAt(loads[c], k)]
                   /\ UNCHANGED toast
              ELSE /\ loads' = [loads EXCEPT ![c][k] =
                                  [pc |-> "getLike", docs |-> docs, acc |-> <<>>]]
                   /\ UNCHANGED <<photos, toast>>
       ELSE /\ toast' = [toast EXCEPT ![c] = "Failed to load photos. Please try again."]
            /\ loads' = [loads EXCEPT ![c] = RemoveAt(loads[c], k)]
            /\ UNCHANGED photos
    /\ UNCHANGED <<storeVars, view, indexVars, roomId, locState, loading, roomData,
                   uploading, selectedPhoto, likeOps, batches>>

\* loadPhotos: the reaction read of the next document resolves or fails
\* (lines 145-162); after the last document, setPhotos (line 166)
LoadPhotosGetLike(c, k, ok) ==
    /\ view[c] = "room" /\ k \in DOMAIN loads[c] /\ loads[c][k].pc = "getLike"
    /\ LET op == loads[c][k]
           d == op.docs[Len(op.acc) + 1]
           acc == Append(op.acc, PhotoOf(d.id, d.data, UserActionOf(d.id, ok)))
       IN IF Len(acc) = Len(op.docs)
          THEN /\ photos' = [photos EXCEPT ![c] = acc]
               /\ loads' = [loads EXCEPT ![c] = RemoveAt(loads[c], k)]
          ELSE /\ loads' = [loads EXCEPT ![c][k].acc = acc]
               /\ UNCHANGED photos
    /\ UNCHANGED <<storeVars, view, indexVars, roomId, locState, loading, roomData,
                   uploading, selectedPhoto, likeOps, batches, toast>>

(***************************************************************************)
(* Reactions: handleLikeDislike (Room.tsx lines 310-372) and the detail    *)
(* view that calls it.                                                     *)
(***************************************************************************)
Actions == {"like", "dislike"}

Other(a) == IF a = "like" THEN "dislike" ELSE "like"

\* p[action + "Count"]
CountOf(p, a) == IF a = "like" THEN p.likeCount ELSE p.dislikeCount

\* { ...p, [action + "Count"]: p[action + "Count"] + delta }, and what
\* increment(delta) does to the stored field
AddCount(p, a, delta) ==
    IF a = "like" THEN [p EXCEPT !.likeCount = @ + delta]
    ELSE [p EXCEPT !.dislikeCount = @ + delta]

\* The zoom button of a photo card (line 529); the detail view covers the grid
SelectPhoto(c, i) ==
    /\ view[c] = "room" /\ ~loading[c] /\ roomData[c] # NoRoom
    /\ selectedPhoto[c] = NoPhoto /\ i \in DOMAIN photos[c]
    /\ selectedPhoto' = [selectedPhoto EXCEPT ![c] = photos[c][i]]
    /\ UNCHANGED <<storeVars, view, indexVars, roomId, locState, loading, roomData,
                   photos, uploading, opVars, toast>>

\* The Close button of the detail view (line 565)
ClosePhoto(c) ==
    /\ view[c] = "room" /\ selectedPhoto[c] # NoPhoto
    /\ selectedPhoto' = [selectedPhoto EXCEPT ![c] = NoPhoto]
    /\ UNCHANGED <<storeVars, view, indexVars, roomId, locState, loading, roomData,
                   photos, uploading, opVars, toast>>

\* The cap on the counters: a new reaction call is started only while the
\* stored counters and the client's own are within MaxCount of zero
WithinCounts(c) ==
    /\ \A p \in DOMAIN photoDocs :
          /\ photoDocs[p].likeCount \in -MaxCount..MaxCount
          /\ photoDocs[p].dislikeCount \in -MaxCount..MaxCount
    /\ \A i \in DOMAIN photos[c] :
          /\ photos[c][i].likeCount \in -MaxCount..MaxCount
          /\ photos[c][i].dislikeCount \in -MaxCount..MaxCount

\* A Like or Dislike button of the detail view (lines 582-597) calls
\* handleLikeDislike, which runs to its first await (lines 310-315) with the
\* photos of the render it was created in
LikeClick(c, action) ==
    /\ view[c] = "room" /\ selectedPhoto[c] # NoPhoto /\ ~uploading[c]
    /\ Len(likeOps[c]) < MaxLikeOps /\ WithinCounts(c)
    /\ likeOps' = [likeOps EXCEPT ![c] = Append(@,
           [pc |-> "getDoc", photoId |-> selectedPhoto[c].id, action |-> action,
            photos |-> photos[c], branch |-> "none", current |-> "none"])]
    /\ UNCHANGED <<storeVars, view, indexVars, roomVars, loads, batches, toast>>

\* The toast of the catch block (lines 364-371)
FailedToast(a) == IF a = "like" THEN "Like failed" ELSE "Dislike failed"

\* The call ends in its catch block
LikeFails(c, k) ==
    /\ toast' = [toast EXCEPT ![c] = FailedToast(likeOps[c][k].action)]
    /\ likeOps' = [likeOps EXCEPT ![c] = RemoveAt(@, k)]

\* photos.find((p) => p.id === photoId) succeeds (lines 316-317)
FoundIn(list, id) == \E i \in DOMAIN list : list[i].id = id

\* BranchOf with a different stored action handled as a first reaction
BranchOfNoSwitch(exists, currentAction, action) ==
    IF exists
    THEN IF currentAction = action THEN "undo"
         ELSE IF currentAction # "null" THEN "new"
         ELSE "none"
    ELSE "new"

\* The branch handleLikeDislike takes on the reaction document it read
\* (lines 320-350); "none" where no branch is taken
BranchOf(exists, currentAction, action) ==
    IF exists
    THEN IF currentAction = action THEN "undo"
         ELSE IF currentAction # "null" THEN "switch"
         ELSE "none"
    ELSE "new"

\* handleLikeDislike: getDoc(likeRef) resolves or fails (lines 315-322, 335, 350)
LikeGetDoc(c, k, ok) ==
    /\ k \in DOMAIN likeOps[c] /\ likeOps[c][k].pc = "getDoc"
    /\ LET op == likeOps[c][k]
           exists == LikeExists(op.photoId)
           currentAction == IF exists THEN likeDocs[LikeKey(op.photoId)].action
                            ELSE "none"
           branch == BranchOf(exists, currentAction, op.action)
       IN IF ~ok THEN LikeFails(c, k)
          ELSE IF ~FoundIn(op.photos, op.photoId) \/ branch = "none"
          THEN /\ likeOps' = [likeOps EXCEPT ![c] = RemoveAt(@, k)]
               /\ UNCHANGED toast
          ELSE /\ likeOps' = [likeOps EXCEPT ![c][k] =
                     [op EXCEPT !.pc = "setDoc", !.branch = branch,
                                !.current = currentAction]]
               /\ UNCHANGED toast
    /\ UNCHANGED <<storeVars, view, indexVars, roomVars, loads, batches>>

\* WrittenAction with a first reaction stored as a fixed "like"
WrittenActionAlwaysLike(op) == IF op.branch = "undo" THEN "null" ELSE "like"

\* WrittenAction with a switch that keeps the old action next to the new one
WrittenActionKeepsOld(op) ==
    IF op.branch = "undo" THEN "null"
    ELSE IF op.branch = "switch" THEN "like+dislike" ELSE op.action

\* The action field setDoc writes (lines 324, 337, 352)
WrittenAction(op) == IF op.branch = "undo" THEN "null" ELSE op.action

\* handleLikeDislike: setDoc(likeRef, ...) resolves or fails
LikeSetDoc(c, k, ok) ==
    /\ k \in DOMAIN likeOps[c] /\ likeOps[c][k].pc = "setDoc"
    /\ LET op == likeOps[c][k] IN
       IF ok
       THEN /\ likeDocs' = [x \in DOMAIN likeDocs \cup {LikeKey(op.photoId)} |->
                              IF x = LikeKey(op.photoId)
                              THEN [action |-> WrittenAction(op)]
                              ELSE likeDocs[x]]
            /\ likeOps' = [likeOps EXCEPT ![c][k].pc = "updateDoc"]
            /\ UNCHANGED toast
       ELSE /\ LikeFails(c, k)
            /\ UNCHANGED likeDocs
    /\ UNCHANGED <<rooms, photoDocs, clock, view, indexVars, roomVars, loads, batches>>

\* CountsUpdated with the undo branch leaving the counters alone
CountsUpdatedNoUndo(p, op) ==
    IF op.branch = "undo" THEN p
    ELSE IF op.branch = "switch"
    THEN AddCount(AddCount(p, op.current, -1), op.action, 1)
    ELSE AddCount(p, op.action, 1)

\* The counters of p after the increments of the call's updateDoc
\* (lines 325-327, 338-341, 353-355)
CountsUpdated(p, op) ==
    IF op.branch = "undo" THEN AddCount(p, op.action, -1)
    ELSE IF op.branch = "switch"
    THEN AddCount(AddCount(p, op.current, -1), op.action, 1)
    ELSE AddCount(p, op.action, 1)

\* handleLikeDislike: updateDoc(photoRef, ...) resolves or fails
LikeUpdateDoc(c, k, ok) ==
    /\ k \in DOMAIN likeOps[c] /\ likeOps[c][k].pc = "updateDoc"
    /\ LET op == likeOps[c][k] IN
       IF ok
       THEN /\ photoDocs' = [photoDocs EXCEPT ![op.photoId] = CountsUpdated(@, op)]
            /\ likeOps' = [likeOps EXCEPT ![c][k].pc = "setPhotos"]
            /\ UNCHANGED toast
       ELSE /\ LikeFails(c, k)
            /\ UNCHANGED photoDocs
    /\ UNCHANGED <<rooms, likeDocs, clock, view, indexVars, roomVars, loads, batches>>

\* The userAction setPhotos gives the photo (lines 329, 343, 357)
LocalAction(op) == IF op.branch = "undo" THEN "undefined" ELSE op.action

\* The toast of a completed call (lines 331, 345, 359)
DoneToast(op) ==
    IF op.branch = "undo"
    THEN (IF op.action = "like" THEN "Removed like" ELSE "Removed dislike")
    ELSE IF op.branch = "switch"
    THEN (IF op.action = "like" THEN "Changed to like" ELSE "Changed to dislike")
    ELSE (IF op.action = "like" THEN "Liked" ELSE "Disliked")

\* The list the call hands to setPhotos: the photos of its own render, with
\* the photo's counters and userAction changed (lines 328-330, 342-344, 356-358)
PhotosUpdated(op) ==
    [i \in DOMAIN op.photos |->
        IF op.photos[i].id = op.photoId
        THEN [CountsUpdated(op.photos[i], op) EXCEPT !.userAction = LocalAction(op)]
        ELSE op.photos[i]]

\* handleLikeDislike after its updateDoc: setPhotos and the toast
LikeSetPhotos(c, k) ==
    /\ k \in DOMAIN likeOps[c] /\ likeOps[c][k].pc = "setPhotos"
    /\ LET op == likeOps[c][k] IN
       /\ photos' = [photos EXCEPT ![c] = PhotosUpdated(op)]
       /\ toast' = [toast EXCEPT ![c] = DoneToast(op)]
    /\ likeOps' = [likeOps EXCEPT ![c] = RemoveAt(@, k)]
    /\ UNCHANGED <<storeVars, view, indexVars, roomId, locState, loading, roomData,
                   uploading, selectedPhoto, loads, batches>>

(***************************************************************************)
(* The directory specification: one client creates, lists, joins and opens *)
(* rooms, from an empty store.  No photo exists here, so every loadPhotos  *)
(* call ends at its query.                                                 *)
(***************************************************************************)
InitClient ==
    /\ view = [c \in Clients |-> "index"]
    /\ roomName = [c \in Clients |-> <<>>]
    /\ password = [c \in Clients |-> <<>>]
    /\ indexLoading = [c \in Clients |-> FALSE]
    /\ createCall = [c \in Clients |-> IdleCall]
    /\ roomsList = [c \in Clients |-> <<>>]
    /\ loadingRooms = [c \in Clients |-> TRUE]
    /\ roomId = [c \in Clients |-> 0]
    /\ locState = [c \in Clients |-> JsUndefined]
    /\ loading = [c \in Clients |-> FALSE]
    /\ roomData = [c \in Clients |-> NoRoom]
    /\ photos = [c \in Clients |-> <<>>]
    /\ uploading = [c \in Clients |-> FALSE]
    /\ selectedPhoto = [c \in Clients |-> NoPhoto]
    /\ loads = [c \in Clients |-> <<>>]
    /\ likeOps = [c \in Clients |-> <<>>]
    /\ batches = [c \in Clients |-> <<>>]
    /\ toast = [c \in Clients |-> NoToast]

InitDir ==
    /\ rooms = <<>>
    /\ photoDocs = <<>>
    /\ likeDocs = <<>>
    /\ clock = 1
    /\ InitClient

NextDir ==
    \E c \in DirClients :
        \/ \E s \in NameInputs : SetRoomName(c, s)
        \/ \E s \in SecretInputs : SetPassword(c, s)
        \/ \E ok \in BOOLEAN : LoadRooms(c, ok)
        \/ \E isPrivate \in BOOLEAN : CreateRoom(c, isPrivate)
        \/ \E ok \in BOOLEAN : CreateRoomDone(c, ok)
        \/ \E k \in 1..MaxRooms, entered \in PromptResults : JoinRoom(c, k, entered)
        \/ \E id \in 1..MaxRooms : OpenRoomUrl(c, id)
        \/ \E ok \in BOOLEAN : LoadRoomData(c, ok)
        \/ Back(c)
        \/ \E k \in 1..MaxLoads, ok \in BOOLEAN : LoadPhotosGetDocs(c, k, ok)

SpecDir == InitDir /\ [][NextDir]_vars

(***************************************************************************)
(* Uploads: handleFileUpload (lines 177-224), handleDrop (lines 250-296)   *)
(* and uploadPhoto (lines 226-248).                                        *)
(***************************************************************************)
FileName(i) == IF i = 1 THEN "a.png" ELSE IF i = 2 THEN "b.png" ELSE "c.png"

\* The document uploadPhoto hands to addDoc (lines 232-239)
NewPhotoDoc(r, name, t) ==
    [room |-> r, base64 |-> "data:image", name |-> name, uploadedAt |-> t,
     uploader |-> "Anonymous", likeCount |-> 0, dislikeCount |-> 0]

\* The files a user can pick or drop
FileInputs ==
    { [name |-> "edge.png", type |-> "image/png", size |-> MaxFileBytes],
      [name |-> "big.png", type |-> "image/png", size |-> MaxFileBytes + 1],
      [name |-> "small.png", type |-> "image/png", size |-> 1024],
      [name |-> "notes.txt", type |-> "text/plain", size |-> 1024] }

\* A pick or a drop: one to MaxBatchLen files
FileLists == UNION { [1..n -> FileInputs] : n \in 1..MaxBatchLen }

\* file.type.startsWith("image/")
IsImage(f) == f.type = "image/png"

\* A size check that also turns away a file of exactly the limit
TooLargeInclusive(f) == f.size >= MaxFileBytes

\* file.size > 750 * 1024 (lines 186, 260)
TooLarge(f) == f.size > MaxFileBytes

RECURSIVE UploadsFrom(_, _)
\* The forEach of lines 184-197 and 258-271 from file i on: one uploadPhoto
\* call, at its FileReader, for each image that is not too large
UploadsFrom(files, i) ==
    IF i > Len(files) THEN <<>>
    ELSE (IF IsImage(files[i]) /\ ~TooLarge(files[i])
          THEN <<[file |-> files[i], pc |-> "reading", t |-> 0]>>
          ELSE <<>>)
         \o UploadsFrom(files, i + 1)

\* The forEach showed the "File too large" toast (lines 187-191, 261-265)
ShowsTooLarge(files) == \E i \in DOMAIN files : IsImage(files[i]) /\ TooLarge(files[i])

\* The uploadPhoto calls of every batch in flight, settled or not
UploadsInFlight ==
    LET RECURSIVE Sum(_, _)
        Sum(bs, i) == IF i > Len(bs) THEN 0 ELSE Len(bs[i].ups) + Sum(bs, i + 1)
        RECURSIVE Total(_)
        Total(S) == IF S = {} THEN 0
                    ELSE LET c == CHOOSE x \in S : TRUE
                         IN Sum(batches[c], 1) + Total(S \ {c})
    IN Total(Clients)

\* handleFileUpload (kind "picker", whose buttons are disabled while
\* uploading) and handleDrop (kind "drop") up to Promise.all
BatchStart(c, kind, files) ==
    /\ view[c] = "room" /\ ~loading[c] /\ roomData[c] # NoRoom
    /\ kind = "picker" => ~uploading[c]
    /\ Len(batches[c]) < MaxBatches
    /\ LET ups == UploadsFrom(files, 1) IN
       /\ Len(photoDocs) + UploadsInFlight + Len(ups) <= MaxPhotos
       /\ batches' = [batches EXCEPT ![c] = Append(@,
              [kind |-> kind, files |-> files, ups |-> ups, pc |-> "join"])]
    /\ uploading' = [uploading EXCEPT ![c] = TRUE]
    /\ toast' = IF ShowsTooLarge(files)
                THEN [toast EXCEPT ![c] = "File too large"] ELSE toast
    /\ UNCHANGED <<storeVars, view, indexVars, roomId, locState, loading, roomData,
                   photos, selectedPhoto, loads, likeOps>>

\* A batch whose handler has returned stays until its uploads have settled
Settled(up) == up.pc \in {"resolved", "readFailed", "addFailed"}

BatchesAfter(c, k, b) ==
    IF b.pc = "ended" /\ \A j \in DOMAIN b.ups : Settled(b.ups[j])
    THEN RemoveAt(batches[c], k)
    ELSE [batches[c] EXCEPT ![k] = b]

\* uploadPhoto: the FileReader loads the file, or fails (lines 228-235, 245)
UploadRead(c, k, j, ok) ==
    /\ k \in DOMAIN batches[c] /\ j \in DOMAIN batches[c][k].ups
    /\ batches[c][k].ups[j].pc = "reading"
    /\ IF ok
       THEN \E t \in Now :
              batches' = [batches EXCEPT ![c][k].ups[j] =
                            [@ EXCEPT !.pc = "addDoc", !.t = t]]
       ELSE batches' = [batches EXCEPT ![c] = BatchesAfter(c, k,
                          [batches[c][k] EXCEPT !.ups[j].pc = "readFailed"])]
    /\ UNCHANGED <<storeVars, view, indexVars, roomVars, loads, likeOps, toast>>

\* uploadPhoto: addDoc resolves or fails (lines 232-243)
UploadAddDoc(c, k, j, ok) ==
    /\ k \in DOMAIN batches[c] /\ j \in DOMAIN batches[c][k].ups
    /\ batches[c][k].ups[j].pc = "addDoc"
    /\ LET up == batches[c][k].ups[j] IN
       IF ok
       THEN /\ photoDocs' = Append(photoDocs, NewPhotoDoc(roomId[c], up.file.name, up.t))
            /\ clock' = Max(clock, up.t)
            /\ batches' = [batches EXCEPT ![c] = BatchesAfter(c, k,
                              [batches[c][k] EXCEPT !.ups[j].pc = "resolved"])]
       ELSE /\ batches' = [batches EXCEPT ![c] = BatchesAfter(c, k,
                              [batches[c][k] EXCEPT !.ups[j].pc = "addFailed"])]
            /\ UNCHANGED <<photoDocs, clock>>
    /\ UNCHANGED <<rooms, likeDocs, view, indexVars, roomVars, loads, likeOps, toast>>

\* A join that goes on once every upload has settled, resolved or not
AllSettledJoin(b) == \A j \in DOMAIN b.ups : Settled(b.ups[j])

\* A join that takes an upload whose addDoc failed for a resolved one
AllAddDocsDone(b) == \A j \in DOMAIN b.ups : b.ups[j].pc \in {"resolved", "addFailed"}

\* Promise.all(uploadPromises) has resolved: every upload has
AllResolved(b) == \A j \in DOMAIN b.ups : b.ups[j].pc = "resolved"

\* A Promise.all whose rejection never reaches the handler
SomeRejectedNever(b) == FALSE

\* Promise.all(uploadPromises) has rejected: some upload has
SomeRejected(b) == \E j \in DOMAIN b.ups : b.ups[j].pc \in {"readFailed", "addFailed"}

\* The handler goes on from Promise.all: to the toast and updateDoc (lines
\* 200-208, 274-282), or to catch and finally (lines 211-223, 285-294)
BatchJoin(c, k) ==
    /\ k \in DOMAIN batches[c] /\ batches[c][k].pc = "join"
    /\ LET b == batches[c][k] IN
       \/ /\ AllResolved(b)
          /\ toast' = [toast EXCEPT ![c] = "photo(s) uploaded!"]
          /\ batches' = [batches EXCEPT ![c][k].pc = "updateDoc"]
          /\ UNCHANGED uploading
       \/ /\ SomeRejected(b)
          /\ toast' = [toast EXCEPT ![c] = "Upload failed"]
          /\ uploading' = [uploading EXCEPT ![c] = FALSE]
          /\ batches' = [batches EXCEPT ![c] =
                           BatchesAfter(c, k, [b EXCEPT !.pc = "ended"])]
    /\ UNCHANGED <<storeVars, view, indexVars, roomId, locState, loading, roomData,
                   photos, selectedPhoto, loads, likeOps>>

\* An increment by the number of files picked or dropped
BatchIncrementAllFiles(b) == Len(b.files)

\* increment(uploadPromises.length) (lines 207, 281)
BatchIncrement(b) == Len(b.ups)

\* updateDoc of the room's photoCount resolves, then loadPhotos() and finally
\* (lines 206-210, 218-223); or it fails, then catch and finally
BatchUpdateDoc(c, k, ok) ==
    /\ k \in DOMAIN batches[c] /\ batches[c][k].pc = "updateDoc"
    /\ IF ok
       THEN /\ Len(loads[c]) < MaxLoads
            /\ rooms' = [rooms EXCEPT ![roomId[c]].photoCount =
                            @ + BatchIncrement(batches[c][k])]
            /\ loads' = [loads EXCEPT ![c] = StartLoadPhotos(c)]
            /\ UNCHANGED toast
       ELSE /\ toast' = [toast EXCEPT ![c] = "Upload failed"]
            /\ UNCHANGED <<rooms, loads>>
    /\ uploading' = [uploading EXCEPT ![c] = FALSE]
    /\ batches' = [batches EXCEPT ![c] = RemoveAt(@, k)]
    /\ UNCHANGED <<photoDocs, likeDocs, clock, view, indexVars, roomId, locState,
                   loading, roomData, photos, selectedPhoto, likeOps>>

(***************************************************************************)
(* The reaction specifications: a public room that holds InitPhotos photos *)
(* nobody has reacted to, and every client in that room's view, its room   *)
(* data set and its first loadPhotos call in flight.                       *)
(***************************************************************************)
InitReact ==
    /\ rooms = <<[NewRoomDoc(<<"a">>, FALSE, <<>>, 1) EXCEPT !.photoCount = InitPhotos]>>
    /\ photoDocs = [i \in 1..InitPhotos |-> NewPhotoDoc(1, FileName(i), i + 1)]
    /\ likeDocs = <<>>
    /\ clock = InitPhotos + 1
    /\ view = [c \in Clients |-> "room"]
    /\ roomName = [c \in Clients |-> <<>>]
    /\ password = [c \in Clients |-> <<>>]
    /\ indexLoading = [c \in Clients |-> FALSE]
    /\ createCall = [c \in Clients |-> IdleCall]
    /\ roomsList = [c \in Clients |-> <<>>]
    /\ loadingRooms = [c \in Clients |-> TRUE]
    /\ roomId = [c \in Clients |-> 1]
    /\ locState = [c \in Clients |-> JsUndefined]
    /\ loading = [c \in Clients |-> FALSE]
    /\ roomData = [c \in Clients |-> RoomOf(1)]
    /\ photos = [c \in Clients |-> <<>>]
    /\ uploading = [c \in Clients |-> FALSE]
    /\ selectedPhoto = [c \in Clients |-> NoPhoto]
    /\ loads = [c \in Clients |-> <<[pc |-> "getDocs"]>>]
    /\ likeOps = [c \in Clients |-> <<>>]
    /\ batches = [c \in Clients |-> <<>>]
    /\ toast = [c \in Clients |-> NoToast]

\* No handleLikeDislike call is in flight on any client
NoLikeInFlight == \A c \in Clients : likeOps[c] = <<>>

\* Reactions of one client, one after another or overlapping, store calls
\* failing or not
NextReactFail ==
    \E c \in SeqClients :
        \/ \E k \in 1..MaxLoads, ok \in BOOLEAN : LoadPhotosGetDocs(c, k, ok)
        \/ \E k \in 1..MaxLoads, ok \in BOOLEAN : LoadPhotosGetLike(c, k, ok)
        \/ \E i \in 1..InitPhotos : SelectPhoto(c, i)
        \/ ClosePhoto(c)
        \/ \E a \in Actions : LikeClick(c, a)
        \/ \E k \in 1..MaxLikeOps, ok \in BOOLEAN : LikeGetDoc(c, k, ok)
        \/ \E k \in 1..MaxLikeOps, ok \in BOOLEAN : LikeSetDoc(c, k, ok)
        \/ \E k \in 1..MaxLikeOps, ok \in BOOLEAN : LikeUpdateDoc(c, k, ok)
        \/ \E k \in 1..MaxLikeOps : LikeSetPhotos(c, k)

SpecReactFail == InitReact /\ [][NextReactFail]_vars

\* The same room holding RacePhotos photos, for the interleaved reactions
InitRace ==
    /\ rooms = <<[NewRoomDoc(<<"a">>, FALSE, <<>>, 1) EXCEPT !.photoCount = RacePhotos]>>
    /\ photoDocs = [i \in 1..RacePhotos |-> NewPhotoDoc(1, FileName(i), i + 1)]
    /\ likeDocs = <<>>
    /\ clock = RacePhotos + 1
    /\ view = [c \in Clients |-> "room"]
    /\ roomName = [c \in Clients |-> <<>>]
    /\ password = [c \in Clients |-> <<>>]
    /\ indexLoading = [c \in Clients |-> FALSE]
    /\ createCall = [c \in Clients |-> IdleCall]
    /\ roomsList = [c \in Clients |-> <<>>]
    /\ loadingRooms = [c \in Clients |-> TRUE]
    /\ roomId = [c \in Clients |-> 1]
    /\ locState = [c \in Clients |-> JsUndefined]
    /\ loading = [c \in Clients |-> FALSE]
    /\ roomData = [c \in Clients |-> RoomOf(1)]
    /\ photos = [c \in Clients |-> <<>>]
    /\ uploading = [c \in Clients |-> FALSE]
    /\ selectedPhoto = [c \in Clients |-> NoPhoto]
    /\ loads = [c \in Clients |-> <<[pc |-> "getDocs"]>>]
    /\ likeOps = [c \in Clients |-> <<>>]
    /\ batches = [c \in Clients |-> <<>>]
    /\ toast = [c \in Clients |-> NoToast]

\* Reactions from every client on those photos, interleaved at every await,
\* every store call of a reaction succeeding
NextRace ==
    \E c \in Clients :
        \/ \E k \in 1..MaxLoads, ok \in BOOLEAN : LoadPhotosGetDocs(c, k, ok)
        \/ \E k \in 1..MaxLoads, ok \in BOOLEAN : LoadPhotosGetLike(c, k, ok)
        \/ \E i \in 1..RacePhotos : SelectPhoto(c, i)
        \/ \E a \in Actions : LikeClick(c, a)
        \/ \E k \in 1..MaxLikeOps : LikeGetDoc(c, k, TRUE)
        \/ \E k \in 1..MaxLikeOps : LikeSetDoc(c, k, TRUE)
        \/ \E k \in 1..MaxLikeOps : LikeUpdateDoc(c, k, TRUE)
        \/ \E k \in 1..MaxLikeOps : LikeSetPhotos(c, k)

SpecRace == InitRace /\ [][NextRace]_vars

\* Sequential reactions of one viewer in one browser: a call starts only when
\* no other call is in flight, and every store call of a reaction succeeds
NextReactSeq ==
    \E c \in SeqClients :
        \/ \E k \in 1..MaxLoads, ok \in BOOLEAN : LoadPhotosGetDocs(c, k, ok)
        \/ \E k \in 1..MaxLoads, ok \in BOOLEAN : LoadPhotosGetLike(c, k, ok)
        \/ \E i \in 1..InitPhotos : SelectPhoto(c, i)
        \/ ClosePhoto(c)
        \/ \E a \in Actions : NoLikeInFlight /\ LikeClick(c, a)
        \/ \E k \in 1..MaxLikeOps : LikeGetDoc(c, k, TRUE)
        \/ \E k \in 1..MaxLikeOps : LikeSetDoc(c, k, TRUE)
        \/ \E k \in 1..MaxLikeOps : LikeUpdateDoc(c, k, TRUE)
        \/ \E k \in 1..MaxLikeOps : LikeSetPhotos(c, k)

SpecReactSeq == InitReact /\ [][NextReactSeq]_vars

(***************************************************************************)
(* The upload specification: a new public room without photos, every       *)
(* client in that room's view, its room data set and its first loadPhotos  *)
(* call in flight.  File reads and store calls fail or not.                *)
(***************************************************************************)
InitUpload ==
    /\ rooms = <<NewRoomDoc(<<"a">>, FALSE, <<>>, 1)>>
    /\ photoDocs = <<>>
    /\ likeDocs = <<>>
    /\ clock = 1
    /\ view = [c \in Clients |-> "room"]
    /\ roomName = [c \in Clients |-> <<>>]
    /\ password = [c \in Clients |-> <<>>]
    /\ indexLoading = [c \in Clients |-> FALSE]
    /\ createCall = [c \in Clients |-> IdleCall]
    /\ roomsList = [c \in Clients |-> <<>>]
    /\ loadingRooms = [c \in Clients |-> TRUE]
    /\ roomId = [c \in Clients |-> 1]
    /\ locState = [c \in Clients |-> JsUndefined]
    /\ loading = [c \in Clients |-> FALSE]
    /\ roomData = [c \in Clients |-> RoomOf(1)]
    /\ photos = [c \in Clients |-> <<>>]
    /\ uploading = [c \in Clients |-> FALSE]
    /\ selectedPhoto = [c \in Clients |-> NoPhoto]
    /\ loads = [c \in Clients |-> <<[pc |-> "getDocs"]>>]
    /\ likeOps = [c \in Clients |-> <<>>]
    /\ batches = [c \in Clients |-> <<>>]
    /\ toast = [c \in Clients |-> NoToast]

\* One client's picks and drops of any files, a batch starting when the
\* uploads of the one before have settled
NextUpload ==
    \E c \in UploadClients :
        \/ \E k \in 1..MaxLoads, ok \in BOOLEAN : LoadPhotosGetDocs(c, k, ok)
        \/ \E k \in 1..MaxLoads, ok \in BOOLEAN : LoadPhotosGetLike(c, k, ok)
        \/ \E files \in FileLists : batches[c] = <<>> /\ BatchStart(c, "picker", files)
        \/ \E files \in FileLists : batches[c] = <<>> /\ BatchStart(c, "drop", files)
        \/ \E k \in 1..MaxBatches, j \in 1..MaxBatchLen, ok \in BOOLEAN :
              UploadRead(c, k, j, ok)
        \/ \E k \in 1..MaxBatches, j \in 1..MaxBatchLen, ok \in BOOLEAN :
              UploadAddDoc(c, k, j, ok)
        \/ \E k \in 1..MaxBatches : BatchJoin(c, k)
        \/ \E k \in 1..MaxBatches, ok \in BOOLEAN : BatchUpdateDoc(c, k, ok)

SpecUpload == InitUpload /\ [][NextUpload]_vars

\* Every file read and every store call of an upload batch completes, with
\* either outcome (reader.onload or reader.onerror, lines 229-245; addDoc,
\* line 232; updateDoc, line 206), and a settled Promise.all resumes its
\* handler (line 199)
UploadFairness ==
    \A c \in UploadClients : \A k \in 1..MaxBatches :
        /\ WF_vars(BatchJoin(c, k))
        /\ WF_vars(\E ok \in BOOLEAN : BatchUpdateDoc(c, k, ok))
        /\ \A j \in 1..MaxBatchLen :
              /\ WF_vars(\E ok \in BOOLEAN : UploadRead(c, k, j, ok))
              /\ WF_vars(\E ok \in BOOLEAN : UploadAddDoc(c, k, j, ok))

SpecUploadFair == InitUpload /\ [][NextUpload]_vars /\ UploadFairness

(***************************************************************************)
(* The listing specification: the room of InitReact, each of whose photo   *)
(* documents is complete or lacks one of the fields base64, name and       *)
(* uploadedAt, which data() then gives as undefined; the viewer has liked  *)
(* the first photo or not.  The ordered query resolves; the reaction reads *)
(* fail or not.                                                            *)
(***************************************************************************)
\* Document d as it is, or without one of the three fields
DocVariants(d) ==
    { d, [d EXCEPT !.base64 = ""], [d EXCEPT !.name = ""], [d EXCEPT !.uploadedAt = 0] }

InitList ==
    /\ rooms = <<[NewRoomDoc(<<"a">>, FALSE, <<>>, 1) EXCEPT !.photoCount = InitPhotos]>>
    /\ photoDocs \in { f \in [1..InitPhotos -> UNION { DocVariants(NewPhotoDoc(1, FileName(i), i + 1)) : i \in 1..InitPhotos }] :
                          \A i \in 1..InitPhotos : f[i] \in DocVariants(NewPhotoDoc(1, FileName(i), i + 1)) }
    /\ likeDocs \in { <<>>, [key \in {LikeKey(1)} |-> [action |-> "like"]] }
    /\ clock = InitPhotos + 1
    /\ view = [c \in Clients |-> "room"]
    /\ roomName = [c \in Clients |-> <<>>]
    /\ password = [c \in Clients |-> <<>>]
    /\ indexLoading = [c \in Clients |-> FALSE]
    /\ createCall = [c \in Clients |-> IdleCall]
    /\ roomsList = [c \in Clients |-> <<>>]
    /\ loadingRooms = [c \in Clients |-> TRUE]
    /\ roomId = [c \in Clients |-> 1]
    /\ locState = [c \in Clients |-> JsUndefined]
    /\ loading = [c \in Clients |-> FALSE]
    /\ roomData = [c \in Clients |-> RoomOf(1)]
    /\ photos = [c \in Clients |-> <<>>]
    /\ uploading = [c \in Clients |-> FALSE]
    /\ selectedPhoto = [c \in Clients |-> NoPhoto]
    /\ loads = [c \in Clients |-> <<[pc |-> "getDocs"]>>]
    /\ likeOps = [c \in Clients |-> <<>>]
    /\ batches = [c \in Clients |-> <<>>]
    /\ toast = [c \in Clients |-> NoToast]

NextList ==
    \E c \in Clients :
        \/ \E k \in 1..MaxLoads : LoadPhotosGetDocs(c, k, TRUE)
        \/ \E k \in 1..MaxLoads, ok \in BOOLEAN : LoadPhotosGetLike(c, k, ok)

SpecList == InitList /\ [][NextList]_vars

\* The picks and drops of the interleaved uploads: small images only
RaceFileLists ==
    { files \in FileLists : \A i \in DOMAIN files : files[i].name = "small.png" }

\* Upload batches from every client, interleaved at every await, file reads
\* and store calls failing or not
NextUploadRace ==
    \E c \in Clients :
        \/ \E k \in 1..MaxLoads, ok \in BOOLEAN : LoadPhotosGetDocs(c, k, ok)
        \/ \E k \in 1..MaxLoads, ok \in BOOLEAN : LoadPhotosGetLike(c, k, ok)
        \/ \E files \in RaceFileLists : BatchStart(c, "picker", files)
        \/ \E files \in RaceFileLists : BatchStart(c, "drop", files)
        \/ \E k \in 1..MaxBatches, j \in 1..MaxBatchLen, ok \in BOOLEAN :
              UploadRead(c, k, j, ok)
        \/ \E k \in 1..MaxBatches, j \in 1..MaxBatchLen, ok \in BOOLEAN :
              UploadAddDoc(c, k, j, ok)
        \/ \E k \in 1..MaxBatches : BatchJoin(c, k)
        \/ \E k \in 1..MaxBatches, ok \in BOOLEAN : BatchUpdateDoc(c, k, ok)

SpecUploadRace == InitUpload /\ [][NextUploadRace]_vars

\* One viewer reacting and uploading in the room of InitRace: a batch from the
\* file picker ends by starting loadPhotos without awaiting it (line 210), so
\* a reaction may be clicked while that listing is in flight.  Every file
\* read and every store call of a reaction or a member upload succeeds
NextReload ==
    \E c \in SeqClients :
        \/ \E k \in 1..MaxLoads, ok \in BOOLEAN : LoadPhotosGetDocs(c, k, ok)
        \/ \E k \in 1..MaxLoads, ok \in BOOLEAN : LoadPhotosGetLike(c, k, ok)
        \/ \E i \in 1..MaxPhotos : SelectPhoto(c, i)
        \/ ClosePhoto(c)
        \/ \E a \in Actions : NoLikeInFlight /\ LikeClick(c, a)
        \/ \E k \in 1..MaxLikeOps : LikeGetDoc(c, k, TRUE)
        \/ \E k \in 1..MaxLikeOps : LikeSetDoc(c, k, TRUE)
        \/ \E k \in 1..MaxLikeOps : LikeUpdateDoc(c, k, TRUE)
        \/ \E k \in 1..MaxLikeOps : LikeSetPhotos(c, k)
        \/ \E files \in RaceFileLists : batches[c] = <<>> /\ BatchStart(c, "picker", files)
        \/ \E k \in 1..MaxBatches, j \in 1..MaxBatchLen : UploadRead(c, k, j, TRUE)
        \/ \E k \in 1..MaxBatches, j \in 1..MaxBatchLen : UploadAddDoc(c, k, j, TRUE)
        \/ \E k \in 1..MaxBatches : BatchJoin(c, k)
        \/ \E k \in 1..MaxBatches, ok \in BOOLEAN : BatchUpdateDoc(c, k, ok)

SpecReload == InitRace /\ [][NextReload]_vars

(***************************************************************************)
(* Claims about the directory and the access check.                        *)
(***************************************************************************)
\* A step in which client c's loadRoomData ran to its end without a failed read
LoadedStep(c) ==
    /\ view[c] = "room" /\ loading[c] /\ ~loading'[c]
    /\ ~(view'[c] = "index" /\ toast'[c] = "Failed to load room data")

\* The view is ready after the step: the room data is set
ReadyAfter(c) == view'[c] = "room" /\ roomData'[c] # NoRoom

\* C5: for a room that exists, a load whose read succeeds reaches ready if and
\* only if the room is public, or it is private and the attempt carried in the
\* navigation state is a string with exactly the stored secret's characters
\* (a missing attempt never matches).
C5_AccessCheck ==
    [][\A c \in Clients :
         (LoadedStep(c) /\ roomId[c] \in DOMAIN rooms) =>
            (ReadyAfter(c) <=>
               \/ ~rooms[roomId[c]].isPrivate
               \/ /\ locState[c].tag = "string"
                  /\ rooms[roomId[c]].password.tag = "string"
                  /\ locState[c].s = rooms[roomId[c]].password.s)]_vars

\* C5 witness: a client is inside a private room, let in by its attempt, and
\* the store also holds a secret that differs from that attempt only in case
\* or in a trailing blank.
C5_Witness ==
    \E c \in Clients :
        /\ view[c] = "room" /\ roomData[c] # NoRoom /\ roomData[c].isPrivate
        /\ locState[c] = roomData[c].password
        /\ \E r \in DOMAIN rooms :
              rooms[r].isPrivate /\ rooms[r].password # locState[c]

\* C6 (as claimed): the Room view opened by createRoom's navigation, its read
\* succeeding, reaches ready, for a public and for a private room.
C6_CreatorEntersRoom ==
    [][\A c \in Clients :
         (LoadedStep(c) /\ toast[c] = "Room created!") => ReadyAfter(c)]_vars

\* C9: while the room-name field is blank (empty after trimming), no createRoom
\* call reaches the store: no addDoc is issued (a room document is written
\* only by an addDoc that was issued) and a step that takes the client into a room is a join or an opened link
\* (it shows no toast); no stored or pending room document has a blank name.
C9_EmptyNameRejected ==
    [][\A c \in Clients :
         /\ (view[c] = "index" /\ createCall[c].pc = "idle" /\ Trim(roomName[c]) = <<>>)
              => (createCall'[c].pc = "idle"
                  /\ (view'[c] = "room" => toast'[c] = toast[c]))
         /\ (createCall'[c].pc = "addDoc" => createCall'[c].doc.name # <<>>)
         /\ (rooms' # rooms =>
               \E d \in Clients : /\ createCall[d].pc = "addDoc"
                                   /\ rooms' = Append(rooms, createCall[d].doc))
         /\ \A r \in DOMAIN rooms' : rooms'[r].name # <<>>]_vars

\* C9 witness: createRoom was called with a blank, non-empty name and refused,
\* and the store holds no room.
C9_Witness ==
    \E c \in Clients :
        /\ toast[c] = "Please enter a room name" /\ roomName[c] = <<" ">>
        /\ rooms = <<>> /\ view[c] = "index"

\* C10: a createRoom call issues a private room document only when the
\* password field is not blank, and then the document has isPrivate = TRUE and
\* the field's text verbatim as its secret; the document written is the one
\* issued.
C10_PrivateNeedsSecret ==
    [][\A c \in Clients :
         /\ (createCall[c].pc = "idle" /\ createCall'[c].pc = "addDoc"
              /\ createCall'[c].doc.isPrivate)
              => /\ Trim(password[c]) # <<>>
                 /\ createCall'[c].doc.password = JsStr(password[c])
         /\ (createCall[c].pc = "addDoc" /\ Len(rooms') = Len(rooms) + 1)
              => rooms'[Len(rooms')] = createCall[c].doc]_vars

\* C10 witness: a private room is stored whose secret ends in a blank, and a
\* later private createRoom with a blank password was refused.
C10_Witness ==
    \E c \in Clients :
        /\ toast[c] = "Please set a password for private room"
        /\ Trim(password[c]) = <<>> /\ Trim(roomName[c]) # <<>>
        /\ \E r \in DOMAIN rooms :
              rooms[r].isPrivate /\ rooms[r].password = JsStr(<<"a", " ">>)

(***************************************************************************)
(* Claims about sequential reactions (SpecReactSeq).                       *)
(***************************************************************************)
\* Client c has one call in flight and the step is a step of that call
CallSteps(c) == Len(likeOps[c]) = 1 /\ likeOps'[c] # likeOps[c]

\* The call goes on from its read to its setDoc, having read `current`
GoesOn(c, current) ==
    /\ Len(likeOps'[c]) = 1 /\ likeOps'[c][1].pc = "setDoc"
    /\ likeOps'[c][1].current = current

\* The stored reaction of the viewer on p: "absent", "null", "like" or "dislike"
Stored(p) == IF LikeExists(p) THEN likeDocs[LikeKey(p)].action ELSE "absent"

\* The same after the step
StoredAfter(p) ==
    IF LikeKey(p) \in DOMAIN likeDocs' THEN likeDocs'[LikeKey(p)].action ELSE "absent"

\* Client c's entries for photo p after the step, against those before it:
\* counter a moved by da, counter b by db, and userAction is ua
LocalMoved(c, p, a, da, b, db, ua) ==
    /\ Len(photos'[c]) = Len(photos[c])
    /\ \E i \in DOMAIN photos[c] : photos[c][i].id = p
    /\ \A i \in DOMAIN photos[c] :
          photos[c][i].id = p =>
             /\ CountOf(photos'[c][i], a) = CountOf(photos[c][i], a) + da
             /\ CountOf(photos'[c][i], b) = CountOf(photos[c][i], b) + db
             /\ photos'[c][i].userAction = ua

\* The stored counters of p after the step: a moved by da, b by db
StoredMoved(p, a, da, b, db) ==
    /\ CountOf(photoDocs'[p], a) = CountOf(photoDocs[p], a) + da
    /\ CountOf(photoDocs'[p], b) = CountOf(photoDocs[p], b) + db

\* Between calls, the counters of every photo are those of the viewer's
\* stored reaction: 1 for an active action, 0 otherwise; and a client's list
\* shows the same
SettledCounts ==
    NoLikeInFlight =>
      /\ \A p \in DOMAIN photoDocs : \A a \in Actions :
            CountOf(photoDocs[p], a) = IF Stored(p) = a THEN 1 ELSE 0
      /\ \A c \in SeqClients : \A i \in DOMAIN photos[c] : \A a \in Actions :
            /\ CountOf(photos[c][i], a) = CountOf(photoDocs[photos[c][i].id], a)
            /\ photos[c][i].userAction = a <=> Stored(photos[c][i].id) = a

\* C1: a call whose requested action is the viewer's stored reaction goes on
\* to clear the reaction (action null), lower that action's stored counter by
\* exactly 1 with the other unchanged, and do the same to the client's entry,
\* whose userAction becomes undefined.  Hence between calls a cleared reaction
\* comes with both counters back at their starting value 0, and an active one
\* with its counter at 1.
C1_ToggleOff ==
    [][/\ \A c \in Clients : CallSteps(c) =>
            LET op == likeOps[c][1]
                p == op.photoId
                a == op.action
            IN /\ (op.pc = "getDoc" /\ Stored(p) = a) => GoesOn(c, a)
               /\ (op.pc = "setDoc" /\ op.current = a) =>
                     StoredAfter(p) = "null" /\ photoDocs' = photoDocs
               /\ (op.pc = "updateDoc" /\ op.current = a) =>
                     StoredMoved(p, a, -1, Other(a), 0) /\ likeDocs' = likeDocs
               /\ (op.pc = "setPhotos" /\ op.current = a) =>
                     LocalMoved(c, p, a, -1, Other(a), 0, "undefined")
       /\ SettledCounts']_vars

\* C1 witness: after a like and a second like on the same photo the reaction
\* is cleared, the counters are back at 0 and the client's entry shows no
\* userAction.
C1_Witness ==
    \E c \in Clients :
        /\ toast[c] = "Removed like" /\ likeOps[c] = <<>>
        /\ \E i \in DOMAIN photos[c] :
              /\ Stored(photos[c][i].id) = "null"
              /\ photos[c][i].userAction = "undefined"
              /\ photos[c][i].likeCount = 0 /\ photos[c][i].dislikeCount = 0
              /\ photoDocs[photos[c][i].id].likeCount = 0

\* C2: a call that finds no reaction document of the viewer goes on to create
\* it with the requested action, raise that action's stored counter by exactly
\* 1 with the other unchanged, and do the same to the client's entry, whose
\* userAction becomes the action.
C2_FirstReaction ==
    [][\A c \in Clients : CallSteps(c) =>
          LET op == likeOps[c][1]
              p == op.photoId
              a == op.action
          IN /\ (op.pc = "getDoc" /\ Stored(p) = "absent") => GoesOn(c, "none")
             /\ (op.pc = "setDoc" /\ op.current = "none") =>
                   /\ ~LikeExists(p) /\ StoredAfter(p) = a
                   /\ photoDocs' = photoDocs
             /\ (op.pc = "updateDoc" /\ op.current = "none") =>
                   StoredMoved(p, a, 1, Other(a), 0) /\ likeDocs' = likeDocs
             /\ (op.pc = "setPhotos" /\ op.current = "none") =>
                   LocalMoved(c, p, a, 1, Other(a), 0, a)]_vars

\* C2 witness: a first dislike has completed.
C2_Witness ==
    \E c \in Clients :
        /\ toast[c] = "Disliked" /\ likeOps[c] = <<>>
        /\ \E i \in DOMAIN photos[c] :
              /\ Stored(photos[c][i].id) = "dislike"
              /\ photos[c][i].userAction = "dislike"
              /\ photos[c][i].dislikeCount = 1 /\ photos[c][i].likeCount = 0
              /\ photoDocs[photos[c][i].id].dislikeCount = 1

\* C3: a call whose requested action is the other one than the viewer's
\* stored, active reaction goes on to store the requested action, lower the
\* old action's counter by 1 and raise the new one's by 1, in the store and in
\* the client's entry, whose userAction becomes the requested action.
C3_Swap ==
    [][\A c \in Clients : CallSteps(c) =>
          LET op == likeOps[c][1]
              p == op.photoId
              a == op.action
          IN /\ (op.pc = "getDoc" /\ Stored(p) = Other(a)) => GoesOn(c, Other(a))
             /\ (op.pc = "setDoc" /\ op.current = Other(a)) =>
                   StoredAfter(p) = a /\ photoDocs' = photoDocs
             /\ (op.pc = "updateDoc" /\ op.current = Other(a)) =>
                   StoredMoved(p, Other(a), -1, a, 1) /\ likeDocs' = likeDocs
             /\ (op.pc = "setPhotos" /\ op.current = Other(a)) =>
                   LocalMoved(c, p, Other(a), -1, a, 1, a)]_vars

\* C3 witness: from {like: 1, dislike: 0, userAction: like} a dislike has
\* given {like: 0, dislike: 1, userAction: dislike}.
C3_Witness ==
    \E c \in Clients :
        /\ toast[c] = "Changed to dislike" /\ likeOps[c] = <<>>
        /\ \E i \in DOMAIN photos[c] :
              /\ Stored(photos[c][i].id) = "dislike"
              /\ photos[c][i].userAction = "dislike"
              /\ photos[c][i].likeCount = 0 /\ photos[c][i].dislikeCount = 1
              /\ photoDocs[photos[c][i].id].likeCount = 0
              /\ photoDocs[photos[c][i].id].dislikeCount = 1

\* The call of c found, or finds in this step, the viewer's reaction cleared
FoundCleared(c) ==
    LET op == likeOps[c][1] IN
    \/ op.pc = "getDoc" /\ Stored(op.photoId) = "null"
    \/ op.pc # "getDoc" /\ op.current = "null"

\* C4 (as claimed): when a call that found the viewer's reaction cleared by a
\* toggle-off ends, the requested action is the active reaction and its
\* counter, 0 while the reaction was cleared, is 1.
C4_ClearedBehavesAsAbsent ==
    [][\A c \in Clients :
          (CallSteps(c) /\ FoundCleared(c) /\ likeOps'[c] = <<>>) =>
             /\ StoredAfter(likeOps[c][1].photoId) = likeOps[c][1].action
             /\ CountOf(photoDocs'[likeOps[c][1].photoId], likeOps[c][1].action) = 1]_vars

\* The room of client c's route exists and c's navigation state passes its
\* access check
MayEnter(c) ==
    /\ roomId[c] \in DOMAIN rooms
    /\ rooms[roomId[c]].isPrivate => locState[c] = rooms[roomId[c]].password

\* Client c's Room view has its room data set or a photo fetch issued
DataOrFetch(c) == roomData[c] # NoRoom \/ loads[c] # <<>>

\* C16: a Room view has its room data set or a photo fetch issued only when
\* it is past loading, its room exists and the access check passes; and the
\* step that ends loadRoomData either reaches ready, with the room data set
\* and one photo fetch issued, for such a room, or else (room absent, check
\* failed, read failed) redirects to the directory with no room data set and
\* no photo fetch issued; either way loading ends.
C16_LoadOutcomes ==
    /\ [](\A c \in Clients :
             DataOrFetch(c) => view[c] = "room" /\ ~loading[c] /\ MayEnter(c))
    /\ [][\A c \in Clients :
             (view[c] = "room" /\ loading[c] /\ ~UNCHANGED <<view[c], loading[c]>>) =>
                /\ ~loading'[c]
                /\ \/ /\ MayEnter(c)
                      /\ view'[c] = "room" /\ roomData'[c] = RoomOf(roomId[c])
                      /\ loads'[c] = <<[pc |-> "getDocs"]>>
                   \/ /\ view'[c] = "index" /\ roomData'[c] = NoRoom /\ loads'[c] = <<>>
                      /\ toast'[c] \in {"Room not found", "Incorrect password",
                                        "Failed to load room data"}
                /\ ~MayEnter(c) => view'[c] = "index"]_vars

\* C16 witness: a client that opened the route of a room that does not exist
\* is back in the directory, with no room data and no photo fetch.
C16_Witness ==
    \E c \in Clients :
        /\ toast[c] = "Room not found" /\ view[c] = "index" /\ ~loading[c]
        /\ roomData[c] = NoRoom /\ loads[c] = <<>>

\* The room documents stored or handed to addDoc by a call in flight
RoomDocsWritten ==
    { rooms[r] : r \in DOMAIN rooms }
       \cup { createCall[c].doc : c \in { d \in Clients : createCall[d].pc = "addDoc" } }

\* C11: every room document createRoom writes, or has handed to addDoc, has
\* a secret exactly when it is private: a public room has password null
\* whatever the password field holds, and a private room has a non-empty
\* string.
C11_SecretIffPrivate ==
    \A d \in RoomDocsWritten :
        /\ d.isPrivate \in BOOLEAN
        /\ (d.password # JsNull) <=> d.isPrivate
        /\ d.isPrivate => d.password.tag = "string" /\ d.password.s # <<>>

\* C11 witness: a private room with its secret is stored, and a public room
\* without one is on its way to the store while the password field holds
\* text.
C11_Witness ==
    /\ \E r \in DOMAIN rooms : rooms[r].isPrivate /\ rooms[r].password.s # <<>>
    /\ \E c \in Clients :
          /\ createCall[c].pc = "addDoc" /\ password[c] # <<>>
          /\ ~createCall[c].doc.isPrivate /\ createCall[c].doc.password = JsNull

(***************************************************************************)
(* Claims about interleaved reactions, under SpecRace.                     *)
(***************************************************************************)
\* The actions active for viewer v on photo p
ActiveActions(p, v) ==
    { a \in Actions : <<p, v>> \in DOMAIN likeDocs /\ likeDocs[<<p, v>>].action = a }

\* C12: there is at most one reaction document for a (photo, viewer) pair,
\* its action is like, dislike or cleared (null), and so like and dislike are
\* never both active for a viewer on a photo.
C12_OneReaction ==
    /\ \A key \in DOMAIN likeDocs :
          /\ key[1] \in DOMAIN photoDocs /\ key[2] = userId
          /\ likeDocs[key].action \in {"like", "dislike", "null"}
    /\ \A p \in DOMAIN photoDocs : Cardinality(ActiveActions(p, userId)) <= 1

\* C12 witness: one client has liked the photo, another has then changed the
\* reaction to dislike, and dislike alone is active.
C12_Witness ==
    /\ NoLikeInFlight
    /\ \E c, d \in Clients :
          /\ c # d /\ toast[c] = "Liked" /\ toast[d] = "Changed to dislike"
          /\ \E p \in DOMAIN photoDocs : ActiveActions(p, userId) = {"dislike"}

\* C13 (as claimed): the stored likeCount and dislikeCount of every photo
\* are at least 0, whatever the interleaving of the reaction calls.
C13_CountsNonNegative ==
    \A p \in DOMAIN photoDocs :
        photoDocs[p].likeCount >= 0 /\ photoDocs[p].dislikeCount >= 0

\* The viewers: the code gives every client the one fixed id
Viewers == {userId}

\* C18 (as claimed): while no reaction call is in flight (and, as in
\* SpecRace, no store call has failed), each counter of a photo is the number
\* of viewers whose active reaction on it is that action.
C18_CountsMatchReactions ==
    NoLikeInFlight =>
       \A p \in DOMAIN photoDocs : \A a \in Actions :
          CountOf(photoDocs[p], a) =
             Cardinality({ v \in Viewers : a \in ActiveActions(p, v) })

(***************************************************************************)
(* Claims about uploads, under SpecUpload.                                 *)
(***************************************************************************)
\* A file that passes validation: an image of at most 750 * 1024 bytes
PassesValidation(f) == f.type = "image/png" /\ f.size <= 750 * 1024

\* The number of files of a pick or drop that pass validation
NPassing(files) == Cardinality({ i \in DOMAIN files : PassesValidation(files[i]) })

\* The record an upload in flight adds for its file
RecordOf(c, up) ==
    [room |-> roomId[c], base64 |-> "data:image", name |-> up.file.name,
     uploadedAt |-> up.t, uploader |-> "Anonymous", likeCount |-> 0,
     dislikeCount |-> 0]

\* Newest first
NewestFirst(list) ==
    \A i, j \in DOMAIN list : i < j => list[i].uploadedAt >= list[j].uploadedAt

\* Batch k of c goes on from Promise.all to the success toast in this step
JoinsResolved(c, k) ==
    /\ k \in DOMAIN batches[c] /\ batches[c][k].pc = "join"
    /\ Len(batches'[c]) = Len(batches[c]) /\ batches'[c][k].pc = "updateDoc"

\* Batch k of c goes from Promise.all to catch in this step
JoinsRejected(c, k) ==
    /\ k \in DOMAIN batches[c] /\ batches[c][k].pc = "join"
    /\ uploading[c] /\ ~uploading'[c]

\* C7 (amended): in a batch in which every file read and every store call
\* succeeds, if N files pass validation then the batch has added exactly N
\* photo records when Promise.all resolves, one record per upload and named
\* after its file; photoCount is raised by exactly N in the one updateDoc of
\* the batch, which also starts loadPhotos; and a list that loadPhotos reads
\* holds every photo record of the room, newest upload first.
C7_BatchAddsN ==
    [][\A c \in Clients :
        /\ \A k \in DOMAIN batches[c] : JoinsResolved(c, k) =>
              LET b == batches[c][k] IN
              /\ Len(b.ups) = NPassing(b.files)
              /\ toast'[c] = "photo(s) uploaded!"
              /\ \A j \in DOMAIN b.ups :
                    /\ b.ups[j].pc = "resolved"
                    /\ \E p \in PhotoIdsOf(roomId[c]) : photoDocs[p] = RecordOf(c, b.ups[j])
        /\ photoDocs' # photoDocs =>
              \E d \in Clients : \E k \in DOMAIN batches[d] :
                 \E j \in DOMAIN batches[d][k].ups :
                    /\ batches[d][k].ups[j].pc = "addDoc"
                    /\ photoDocs' = Append(photoDocs, RecordOf(d, batches[d][k].ups[j]))
                    /\ Len(batches'[d]) = Len(batches[d]) =>
                          /\ batches'[d][k].ups[j].pc = "resolved"
                          /\ \A i \in DOMAIN batches[d][k].ups :
                                i # j => batches'[d][k].ups[i] = batches[d][k].ups[i]
        /\ rooms' # rooms =>
              \E d \in Clients : \E k \in DOMAIN batches[d] :
                 /\ batches[d][k].pc = "updateDoc"
                 /\ rooms' = [rooms EXCEPT ![roomId[d]].photoCount =
                                 @ + NPassing(batches[d][k].files)]
                 /\ batches'[d] = RemoveAt(batches[d], k)
                 /\ loads'[d] = Append(loads[d], [pc |-> "getDocs"])
        /\ \A k \in DOMAIN loads[c] :
              (/\ loads[c][k].pc = "getDocs"
               /\ Len(loads'[c]) = Len(loads[c])
               /\ loads'[c][k].pc = "getLike") =>
                 LET docs == loads'[c][k].docs IN
                 /\ { docs[i].id : i \in DOMAIN docs } = PhotoIdsOf(roomId[c])
                 /\ Len(docs) = Cardinality(PhotoIdsOf(roomId[c]))
                 /\ \A i \in DOMAIN docs : docs[i].data = photoDocs[docs[i].id]
        /\ photos'[c] # photos[c] =>
              /\ NewestFirst(photos'[c])
              /\ \E k \in DOMAIN loads[c] :
                    /\ loads[c][k].pc = "getLike"
                    /\ Len(photos'[c]) = Len(loads[c][k].docs)
                    /\ \A i \in DOMAIN photos'[c] :
                          /\ photos'[c][i].id = loads[c][k].docs[i].id
                          /\ photos'[c][i].name = loads[c][k].docs[i].data.name]_vars

\* C7 witness: the new public room after uploads of two images has
\* photoCount = 2 and two listed photos, the newer one first.
C7_Witness ==
    \E c \in Clients :
        /\ batches[c] = <<>> /\ loads[c] = <<>> /\ ~uploading[c]
        /\ toast[c] = "photo(s) uploaded!"
        /\ Len(photoDocs) = 2 /\ rooms[roomId[c]].photoCount = 2
        /\ Len(photos[c]) = 2
        /\ photos[c][1].id = 2 /\ photos[c][2].id = 1
        /\ photos[c][1].uploadedAt > photos[c][2].uploadedAt

\* C7 (as claimed): a batch in which every store call succeeds adds its
\* records and raises photoCount, so a batch that goes to catch from
\* Promise.all has had a store call fail.
C7_StoreCallsOnly ==
    [][\A c \in Clients : \A k \in DOMAIN batches[c] :
          JoinsRejected(c, k) =>
             \E j \in DOMAIN batches[c][k].ups : batches[c][k].ups[j].pc = "addFailed"]_vars

\* C8: of the image files of a pick (handleFileUpload) or a drop
\* (handleDrop), exactly those of more than 750 * 1024 bytes get no upload,
\* and the "File too large" toast is shown for them; every photo record
\* added is the record of a file that passes validation, and photoCount
\* rises by the number of the batch's files that pass validation, so a
\* rejected file adds no record and nothing to photoCount.
C8_SizeLimit ==
    [][/\ \A c \in Clients : Len(batches'[c]) > Len(batches[c]) =>
             LET b == batches'[c][Len(batches'[c])] IN
             /\ b.kind \in {"picker", "drop"}
             /\ Len(b.ups) = NPassing(b.files)
             /\ \A i \in DOMAIN b.files :
                   b.files[i].type = "image/png" =>
                      ((\A j \in DOMAIN b.ups : b.ups[j].file # b.files[i])
                          <=> b.files[i].size > 750 * 1024)
             /\ (\E i \in DOMAIN b.files :
                    b.files[i].type = "image/png" /\ b.files[i].size > 750 * 1024)
                   => toast'[c] = "File too large"
       /\ photoDocs' # photoDocs =>
             \E c \in Clients : \E k \in DOMAIN batches[c] :
                \E j \in DOMAIN batches[c][k].ups :
                   /\ PassesValidation(batches[c][k].ups[j].file)
                   /\ photoDocs' = Append(photoDocs, RecordOf(c, batches[c][k].ups[j]))
       /\ \A r \in DOMAIN rooms :
             rooms'[r].photoCount # rooms[r].photoCount =>
                \E c \in Clients : \E k \in DOMAIN batches[c] :
                   /\ roomId[c] = r /\ batches[c][k].pc = "updateDoc"
                   /\ rooms'[r].photoCount =
                         rooms[r].photoCount + NPassing(batches[c][k].files)]_vars

\* C8 witness: a drop of an image of 750 * 1024 + 1 bytes and an image of
\* exactly 750 * 1024 bytes has reached its updateDoc with one record, that
\* of the second file, added.
C8_Witness ==
    \E c \in Clients : \E k \in DOMAIN batches[c] :
        /\ batches[c][k].kind = "drop" /\ batches[c][k].pc = "updateDoc"
        /\ Len(batches[c][k].files) = 2
        /\ batches[c][k].files[1].size = 750 * 1024 + 1
        /\ batches[c][k].files[2].size = 750 * 1024
        /\ Len(photoDocs) = 1 /\ photoDocs[1].name = batches[c][k].files[2].name

\* Some upload of batch b has failed, at its file read or at its addDoc
MemberFailed(b) == \E j \in DOMAIN b.ups : b.ups[j].pc \in {"readFailed", "addFailed"}

\* The handler of client c's batch leaves Promise.all in this step
LeavesJoin(c) ==
    /\ Len(batches[c]) = 1 /\ batches[c][1].pc = "join"
    /\ batches'[c] = <<>> \/ batches'[c][1].pc # "join"

\* C21: a batch with a failed upload leaves Promise.all only to its catch:
\* the step shows "Upload failed" and changes neither the room's photoCount
\* nor the photo list nor the loadPhotos calls in flight, and the batch never
\* reaches updateDoc; no step takes a photo record out of the store, so what
\* the other uploads of the batch have written stays.
C21_AllOrNothingJoin ==
    [][/\ \A c \in Clients :
             (LeavesJoin(c) /\ MemberFailed(batches[c][1])) =>
                /\ toast'[c] = "Upload failed"
                /\ rooms' = rooms /\ photos'[c] = photos[c] /\ loads'[c] = loads[c]
                /\ batches'[c] = <<>> \/ batches'[c][1].pc = "ended"
       /\ \A c \in Clients : \A k \in DOMAIN batches[c] :
             batches[c][k].pc \in {"updateDoc"} => ~MemberFailed(batches[c][k])
       /\ rooms' # rooms =>
             \E c \in Clients : \E k \in DOMAIN batches[c] :
                batches[c][k].pc = "updateDoc" /\ ~MemberFailed(batches[c][k])
       /\ Len(photoDocs') >= Len(photoDocs)
       /\ \A p \in DOMAIN photoDocs : photoDocs'[p] = photoDocs[p]]_vars

\* C21 witness: a batch has ended with "Upload failed" and nothing is in
\* flight; a record one of its uploads wrote is in the store, photoCount is 0
\* and the list is empty.
C21_Witness ==
    \E c \in Clients :
        /\ toast[c] = "Upload failed" /\ ~uploading[c]
        /\ loads[c] = <<>> /\ batches[c] = <<>>
        /\ Len(photoDocs) = 1 /\ rooms[roomId[c]].photoCount = 0 /\ photos[c] = <<>>

\* C22 (as claimed): a batch none of whose files passes validation shows no
\* success toast and issues no updateDoc of the room's photoCount: its
\* handler is never past Promise.all on the success path.
C22_RejectedBatchNotAttempted ==
    \A c \in Clients : \A k \in DOMAIN batches[c] :
        NPassing(batches[c][k].files) = 0 => batches[c][k].pc # "updateDoc"

\* C20 (as claimed): when uploading is false in a Room view, every upload
\* of its batches has settled, resolved or rejected: none is still reading
\* its file or waiting for addDoc.
C20_WaitsForWholeBatch ==
    \A c \in Clients : ~uploading[c] =>
        \A k \in DOMAIN batches[c] : \A j \in DOMAIN batches[c][k].ups :
            batches[c][k].ups[j].pc \in {"resolved", "readFailed", "addFailed"}

(***************************************************************************)
(* Claims about interleaved uploads, under SpecUploadRace.                 *)
(***************************************************************************)
\* C14: the photoCount of every room is at least 0 and at most the number
\* of photo records stored in the room, and no step lowers it, whatever the
\* interleaving of the clients' batches and whichever calls fail.
C14_PhotoCountUnderCounts ==
    /\ [](\A r \in DOMAIN rooms :
             /\ rooms[r].photoCount >= 0
             /\ rooms[r].photoCount <= Cardinality(PhotoIdsOf(r)))
    /\ [][\A r \in DOMAIN rooms : rooms'[r].photoCount >= rooms[r].photoCount]_vars

\* C14 witness: batches of two clients have added a record each, one batch
\* has raised photoCount and the other has failed at its updateDoc, so the
\* counter under-counts with no batch in flight.
C14_Witness ==
    /\ \A c \in Clients : batches[c] = <<>>
    /\ \E c, d \in Clients :
          c # d /\ toast[c] = "photo(s) uploaded!" /\ toast[d] = "Upload failed"
    /\ Cardinality(PhotoIdsOf(1)) = 2 /\ rooms[1].photoCount = 1

(***************************************************************************)
(* Claims about the listing, under SpecList.                               *)
(***************************************************************************)
\* The photo records of room r that have a payload, a name and an upload date
WellFormedIds(r) ==
    { p \in PhotoIdsOf(r) :
         photoDocs[p].base64 # "" /\ photoDocs[p].name # "" /\ photoDocs[p].uploadedAt # 0 }

\* C15: a loadPhotos call whose query resolves ends without the failure
\* toast, and the list it sets holds one entry for every well-formed photo
\* record of the room and none for a record that lacks its payload, its name
\* or its upload date.
C15_MalformedSkipped ==
    \A c \in Clients :
        /\ toast[c] # "Failed to load photos. Please try again."
        /\ loads[c] = <<>> =>
              /\ Len(photos[c]) = Cardinality(WellFormedIds(roomId[c]))
              /\ { photos[c][i].id : i \in DOMAIN photos[c] } = WellFormedIds(roomId[c])

\* C15 witness: the room holds one malformed record among its InitPhotos
\* records and a finished listing shows the others.
C15_Witness ==
    \E c \in Clients :
        /\ loads[c] = <<>>
        /\ Cardinality(WellFormedIds(roomId[c])) = Cardinality(PhotoIdsOf(roomId[c])) - 1
        /\ Len(photos[c]) = Cardinality(PhotoIdsOf(roomId[c])) - 1
        /\ Len(photos[c]) >= 1

\* The entry the step of load k of client c has made for its next document
EntryMade(c, k) ==
    IF Len(loads'[c]) = Len(loads[c])
    THEN loads'[c][k].acc[Len(loads'[c][k].acc)]
    ELSE photos'[c][Len(photos'[c])]

\* The step is one of load k of client c in which the read of the viewer's
\* reaction on the next document fails: the reaction is stored, and the entry
\* is made without it
ReactionReadFails(c, k) ==
    /\ loads[c][k].pc = "getLike" /\ loads'[c] # loads[c]
    /\ LikeExists(loads[c][k].docs[Len(loads[c][k].acc) + 1].id)
    /\ EntryMade(c, k).userAction = "undefined"

HandlersRunning(c) == { k \in DOMAIN batches[c] : batches[c][k].pc # "ended" }

\* C19 (as claimed): while uploading is true in a Room view no step starts
\* a batch there, from the file picker or from a drop, so at most one batch
\* handler of the view is running at any time.
C19_UploadingGuards ==
    /\ [](\A c \in Clients : Cardinality(HandlersRunning(c)) <= 1)
    /\ [][\A c \in Clients : uploading[c] => Len(batches'[c]) <= Len(batches[c])]_vars

(***************************************************************************)
(* Claims about failing reactions, under SpecReactFail.                    *)
(***************************************************************************)
\* The stored reaction the call read at its getDoc: "absent" where the
\* document did not exist
ReadBy(op) == IF op.current = "none" THEN "absent" ELSE op.current

\* The step ends the one call of client c in its catch block, after its read
EndsFailed(c) ==
    /\ CallSteps(c) /\ likeOps'[c] = <<>>
    /\ likeOps[c][1].pc \in {"setDoc", "updateDoc"}
    /\ toast'[c] = FailedToast(likeOps[c][1].action)

\* C23 (as claimed): a call that ends in its catch block leaves the viewer's
\* stored reaction and the photo's stored counters either both as the call
\* found them or both updated: never the reaction changed and the counters
\* as they were.
C23_FailureKeepsStoreConsistent ==
    [][\A c \in SeqClients :
          EndsFailed(c) =>
             LET op == likeOps[c][1] IN
               \/ /\ StoredAfter(op.photoId) = ReadBy(op)
                  /\ photoDocs'[op.photoId] = photoDocs[op.photoId]
               \/ /\ StoredAfter(op.photoId) # ReadBy(op)
                  /\ \E a \in Actions :
                        CountOf(photoDocs'[op.photoId], a) #
                           IF ReadBy(op) = a THEN 1 ELSE 0]_vars

(***************************************************************************)
(* Claims about the detail view, under SpecReactSeq.                       *)
(***************************************************************************)
\* The step is the end of a successful call of client c on the photo open in
\* its detail view
ReactedOnOpenPhoto(c) ==
    /\ CallSteps(c) /\ likeOps[c][1].pc = "setPhotos"
    /\ selectedPhoto[c] # NoPhoto /\ selectedPhoto[c].id = likeOps[c][1].photoId

\* C24 (as claimed): when a call on the photo open in the detail view has
\* completed, selectedPhoto shows the like count, the dislike count and the
\* userAction of that photo's entry in the local list.
C24_DetailViewFollowsList ==
    [][\A c \in SeqClients :
          ReactedOnOpenPhoto(c) =>
             \A i \in DOMAIN photos'[c] :
                photos'[c][i].id = selectedPhoto'[c].id =>
                   /\ selectedPhoto'[c].likeCount = photos'[c][i].likeCount
                   /\ selectedPhoto'[c].dislikeCount = photos'[c][i].dislikeCount
                   /\ selectedPhoto'[c].userAction = photos'[c][i].userAction]_vars

(***************************************************************************)
(* Claims about what a reaction leaves alone, under SpecReload.            *)
(***************************************************************************)
\* Records x and y agree on every field but the two counters
SameButCounts(x, y) ==
    x = [y EXCEPT !.likeCount = x.likeCount, !.dislikeCount = x.dislikeCount]

\* The step leaves the store alone but for the viewer's reaction on p and
\* the two counters of p
StoreFrame(p) ==
    /\ rooms' = rooms
    /\ DOMAIN photoDocs' = DOMAIN photoDocs
    /\ \A q \in DOMAIN photoDocs :
          IF q = p THEN SameButCounts(photoDocs'[q], photoDocs[q])
          ELSE photoDocs'[q] = photoDocs[q]
    /\ DOMAIN likeDocs \subseteq DOMAIN likeDocs'
    /\ DOMAIN likeDocs' \subseteq DOMAIN likeDocs \cup {LikeKey(p)}
    /\ \A x \in DOMAIN likeDocs : x # LikeKey(p) => likeDocs'[x] = likeDocs[x]

\* The step leaves client c's list alone but for the counters and the
\* userAction of its entry for p
ListFrame(c, p) ==
    /\ Len(photos'[c]) = Len(photos[c])
    /\ \A i \in DOMAIN photos[c] :
          IF photos[c][i].id = p
          THEN [photos'[c][i] EXCEPT !.userAction = "undefined"] =
                  [photos[c][i] EXCEPT !.likeCount = photos'[c][i].likeCount,
                                       !.dislikeCount = photos'[c][i].dislikeCount,
                                       !.userAction = "undefined"]
          ELSE photos'[c][i] = photos[c][i]

\* C25 (as claimed): every step of a reaction call on photo p changes, in
\* the store, only the viewer's reaction record on p and p's likeCount and
\* dislikeCount, and, in the client's list, only the entry of p: the other
\* fields of p, every other photo, the other reaction records and the room
\* record stay what they were.
C25_ReactionFrame ==
    [][\A c \in SeqClients :
          CallSteps(c) =>
             /\ StoreFrame(likeOps[c][1].photoId)
             /\ ListFrame(c, likeOps[c][1].photoId)]_vars

\* The store's part of C25 alone
C25_StoreFrameOnly ==
    [][\A c \in SeqClients : CallSteps(c) => StoreFrame(likeOps[c][1].photoId)]_vars

(***************************************************************************)
(* Claims about the end of a batch, under SpecUploadFair.                  *)
(***************************************************************************)
\* The step ends the handler of a batch of client c: it leaves updateDoc, or
\* Promise.all by its rejection
HandlerEnds(c) ==
    \E k \in DOMAIN batches[c] :
        /\ batches[c][k].pc \in {"join", "updateDoc"}
        /\ \/ Len(batches'[c]) < Len(batches[c])
           \/ batches'[c][k].pc = "ended"

\* C26: when every file read and store call completes, a view whose
\* uploading is true comes back to uploading false, whether the batch
\* succeeds, one of its uploads fails or its photoCount update fails; and the
\* step that ends a batch's handler is the one that resets uploading.
C26_UploadingEnds ==
    /\ \A c \in UploadClients : uploading[c] ~> ~uploading[c]
    /\ [][\A c \in UploadClients : HandlerEnds(c) => ~uploading'[c]]_vars

\* C26 witness: the view is idle after a batch that succeeded and a later
\* one whose upload was written and whose photoCount update failed.
C26_Witness ==
    \E c \in UploadClients :
        /\ ~uploading[c] /\ batches[c] = <<>>
        /\ toast[c] = "Upload failed"
        /\ Len(photoDocs) = 2 /\ rooms[roomId[c]].photoCount = 1

====
